---- MODULE Spec2Model ----
(***************************************************************************)
(* Model of github.com/general252/fsm (fsm.go): a StateMachine holding a   *)
(* current State, a map eKey -> *Transition and a sync.Mutex, used by      *)
(* several goroutines that call Trigger, AddTransitions, CurrentState and  *)
(* View.  Every statement that reads or writes the shared fields is a step *)
(* of the calling goroutine.                                               *)
(***************************************************************************)
EXTENDS Integers, Sequences, FiniteSets, TLC

(***************************************************************************)
(* Bounds of the model.                                                    *)
(***************************************************************************)
\* longest batch handed to one AddTransitions call
MaxBatch == 2

\* type State string, type Event string: the labels in use
States == {"A", "B", "C"}
Events == {"X", "Y"}

\* the goroutines sharing one *StateMachine
Threads == {"t1", "t2"}

\* The goroutines that call View.  View writes no field, so two View calls
\* cannot affect each other, and one caller racing with the other
\* goroutine's Trigger and AddTransitions shows every interleaving.
Viewers == {"t2"}

\* the *Transition values the callers hold
Pointers == {"p1", "p2", "p3", "p4"}

\* The Transition records behind the pointers.  Handle is the handler
\* function, named by what it returns: "ok" always returns nil, "fail"
\* always returns an error, "either" returns nil or an error.
\* p1 and p4 share the key (A, X).
NewTransitions ==
    [p1 |-> [From |-> "A", Event |-> "X", To |-> "B", Handle |-> "ok"],
     p2 |-> [From |-> "A", Event |-> "Y", To |-> "C", Handle |-> "fail"],
     p3 |-> [From |-> "B", Event |-> "X", To |-> "C", Handle |-> "either"],
     p4 |-> [From |-> "A", Event |-> "X", To |-> "C", Handle |-> "ok"]]

\* the argument lists of AddTransitions(transitions ...*Transition)
Batches == UNION {[1..n -> Pointers] : n \in 0..MaxBatch}

(***************************************************************************)
(* Values.                                                                 *)
(***************************************************************************)
\* type eKey struct { From State; Event Event }
eKey(from, event) == <<from, event>>

\* the nil error
NoErr == <<"nil", "-", "-">>

\* fmt.Errorf("state, event: [%v, %v] undefined", fm.current, event)
ErrUndefined(state, event) == <<"undefined", state, event>>

\* fmt.Errorf("state, event: [%v, %v] existed", from, event)
ErrExisted(from, event) == <<"existed", from, event>>

\* the error value the handler of transition p returns when it fails
ErrHandler(p) == <<"handler", p, "-">>

\* what a call of the handler tr.Handle(from, e, to) can return; nothing
\* when the call does not return (a nil func value, a handler that waits)
HandleReturns(p, handle) ==
    CASE handle = "ok" -> {NoErr}
      [] handle = "fail" -> {ErrHandler(p)}
      [] handle = "either" -> {NoErr, ErrHandler(p)}
      [] OTHER -> {}

\* sync.Mutex unlocked
Unlocked == "unlocked"

\* a string read that raced with a write of it (pointer and length words
\* of two different strings)
Torn == "torn"

(***************************************************************************)
(* State.                                                                  *)
(***************************************************************************)
VARIABLES
    current,      \* fm.current
    transitions,  \* fm.transitions: a function eKey -> pointer; the empty
                  \* function is both the nil map and the empty map
    mutex,        \* fm.mutex: Unlocked or the goroutine holding it
    heap,         \* the Transition records the pointers point to
    fatal,        \* the runtime has thrown "concurrent map read and map write"
    th            \* per goroutine: the call in progress and its locals

vars == <<current, transitions, mutex, heap, fatal, th>>

\* a goroutine outside every call
Idle ==
    [pc |-> "idle",
     op |-> "-",
     event |-> "-",            \* Trigger's argument
     batch |-> <<>>,           \* AddTransitions' arguments
     i |-> 0,                  \* AddTransitions' range index (1-based)
     trans |-> "-",            \* Trigger's trans
     hargs |-> <<>>,           \* the arguments of each handler call made
     herr |-> NoErr,           \* what the handler returned
     err |-> NoErr,            \* the call's return value
     preCurrent |-> "-",       \* fm.current when the call took the mutex
     preTransitions |-> <<>>,  \* fm.transitions when the call took the mutex
     raced |-> FALSE,          \* CurrentState read inside another goroutine's call
     state |-> "-",            \* CurrentState's return value
     sortedTransitionKeys |-> <<>>,
     sortedStates |-> <<>>,
     statesToIDMap |-> <<>>,
     flowChart |-> <<>>,
     diagram |-> <<>>,
     graphViz |-> <<>>]

\* NewStateMachine(current): &StateMachine{current: current}
NewStateMachine(initial) ==
    /\ current = initial
    /\ transitions = <<>>
    /\ mutex = Unlocked

Init ==
    /\ \E initial \in States : NewStateMachine(initial)
    /\ heap = NewTransitions
    /\ fatal = FALSE
    /\ th = [t \in Threads |-> Idle]

(***************************************************************************)
(* Map operations.                                                         *)
(***************************************************************************)
\* _, ok := m[k]
MapHas(m, k) == k \in DOMAIN m

\* m[k] = v
MapPut(m, k, v) == [x \in (DOMAIN m) \cup {k} |-> IF x = k THEN v ELSE m[x]]

\* a goroutine is between Lock and Unlock
InCall(t) ==
    th[t].pc \in {"tr_lookup", "tr_handle", "tr_update", "tr_unlock",
                  "add_range", "add_unlock"}

Set(t, rec) == th' = [th EXCEPT ![t] = rec]

(***************************************************************************)
(* func (fm *StateMachine) Trigger(event Event) error                      *)
(***************************************************************************)
\* The caller's argument is private to the caller until the body runs, so
\* the model binds it when the mutex is taken.
TriggerCall(t) ==
    /\ ~fatal
    /\ th[t].pc = "idle"
    /\ Set(t, [Idle EXCEPT !.pc = "tr_lock", !.op = "Trigger"])
    /\ UNCHANGED <<current, transitions, mutex, heap, fatal>>

\* TriggerLock with the Lock left out: the body starts whoever holds the mutex
TriggerLock_NoMutex(t, event) ==
    /\ ~fatal
    /\ th[t].pc = "tr_lock"
    /\ mutex' = t
    /\ Set(t, [th[t] EXCEPT !.pc = "tr_lookup",
                            !.event = event,
                            !.preCurrent = current,
                            !.preTransitions = transitions])
    /\ UNCHANGED <<current, transitions, heap, fatal>>

\* fm.mutex.Lock()
TriggerLock(t, event) ==
    /\ ~fatal
    /\ th[t].pc = "tr_lock"
    /\ mutex = Unlocked
    /\ mutex' = t
    /\ Set(t, [th[t] EXCEPT !.pc = "tr_lookup",
                            !.event = event,
                            !.preCurrent = current,
                            !.preTransitions = transitions])
    /\ UNCHANGED <<current, transitions, heap, fatal>>

\* TriggerLookup matching the event alone, whatever the current state
TriggerLookup_AnyState(t) ==
    /\ ~fatal
    /\ th[t].pc = "tr_lookup"
    /\ LET found == {k \in DOMAIN transitions : k[2] = th[t].event} IN
       IF found # {}
       THEN \E key \in found :
              Set(t, [th[t] EXCEPT
                !.pc = "tr_handle",
                !.trans = transitions[key],
                !.hargs = Append(@, <<current, th[t].event,
                                      heap[transitions[key]].To>>)])
       ELSE Set(t, [th[t] EXCEPT
                !.pc = "tr_unlock",
                !.err = ErrUndefined(current, th[t].event)])
    /\ UNCHANGED <<current, transitions, mutex, heap, fatal>>

\* TriggerLookup returning nil when no transition matches
TriggerLookup_NilWhenUndefined(t) ==
    /\ ~fatal
    /\ th[t].pc = "tr_lookup"
    /\ LET key == eKey(current, th[t].event) IN
       IF MapHas(transitions, key)
       THEN Set(t, [th[t] EXCEPT
                !.pc = "tr_handle",
                !.trans = transitions[key],
                !.hargs = Append(@, <<current, th[t].event,
                                      heap[transitions[key]].To>>)])
       ELSE Set(t, [th[t] EXCEPT !.pc = "tr_unlock", !.err = NoErr])
    /\ UNCHANGED <<current, transitions, mutex, heap, fatal>>

\* if trans, ok := fm.transitions[eKey{fm.current, event}]; ok {
\*     ... trans.Handle(fm.current, event, trans.To) is called
\* }
\* return fmt.Errorf("state, event: [%v, %v] undefined", fm.current, event)
TriggerLookup(t) ==
    /\ ~fatal
    /\ th[t].pc = "tr_lookup"
    /\ LET key == eKey(current, th[t].event) IN
       IF MapHas(transitions, key)
       THEN Set(t, [th[t] EXCEPT
                !.pc = "tr_handle",
                !.trans = transitions[key],
                !.hargs = Append(@, <<current, th[t].event,
                                      heap[transitions[key]].To>>)])
       ELSE Set(t, [th[t] EXCEPT
                !.pc = "tr_unlock",
                !.err = ErrUndefined(current, th[t].event)])
    /\ UNCHANGED <<current, transitions, mutex, heap, fatal>>

\* TriggerHandle dropping the handler's error: the state is updated anyway
TriggerHandle_IgnoresError(t) ==
    /\ ~fatal
    /\ th[t].pc = "tr_handle"
    /\ \E err \in HandleReturns(th[t].trans, heap[th[t].trans].Handle) :
         Set(t, [th[t] EXCEPT !.pc = "tr_update", !.herr = err])
    /\ UNCHANGED <<current, transitions, mutex, heap, fatal>>

\* TriggerHandle returning an error of its own in place of the handler's
TriggerHandle_WrapsError(t) ==
    /\ ~fatal
    /\ th[t].pc = "tr_handle"
    /\ \E err \in HandleReturns(th[t].trans, heap[th[t].trans].Handle) :
         IF err # NoErr
         THEN Set(t, [th[t] EXCEPT !.pc = "tr_unlock", !.herr = err,
                                   !.err = <<"handle failed", err[2], "-">>])
         ELSE Set(t, [th[t] EXCEPT !.pc = "tr_update", !.herr = err])
    /\ UNCHANGED <<current, transitions, mutex, heap, fatal>>

\* if err := trans.Handle(...); err != nil { return err }
TriggerHandle(t) ==
    /\ ~fatal
    /\ th[t].pc = "tr_handle"
    /\ \E err \in HandleReturns(th[t].trans, heap[th[t].trans].Handle) :
         IF err # NoErr
         THEN Set(t, [th[t] EXCEPT !.pc = "tr_unlock", !.herr = err, !.err = err])
         ELSE Set(t, [th[t] EXCEPT !.pc = "tr_update", !.herr = err])
    /\ UNCHANGED <<current, transitions, mutex, heap, fatal>>

\* TriggerUpdate consuming the transition it applies
TriggerUpdate_ConsumesTransition(t) ==
    /\ ~fatal
    /\ th[t].pc = "tr_update"
    /\ current' = heap[th[t].trans].To
    /\ transitions' = [k \in DOMAIN transitions \ {eKey(current, th[t].event)}
                          |-> transitions[k]]
    /\ Set(t, [th[t] EXCEPT !.pc = "tr_unlock", !.err = NoErr])
    /\ UNCHANGED <<mutex, heap, fatal>>

\* fm.current = trans.To; return nil
TriggerUpdate(t) ==
    /\ ~fatal
    /\ th[t].pc = "tr_update"
    /\ current' = heap[th[t].trans].To
    /\ Set(t, [th[t] EXCEPT !.pc = "tr_unlock", !.err = NoErr])
    /\ UNCHANGED <<transitions, mutex, heap, fatal>>

\* Trigger returning an error without unlocking the mutex
TriggerUnlock_KeepsMutexOnError(t) ==
    /\ ~fatal
    /\ th[t].pc = "tr_unlock"
    /\ mutex' = IF th[t].err = NoErr THEN Unlocked ELSE mutex
    /\ Set(t, Idle)
    /\ UNCHANGED <<current, transitions, heap, fatal>>

\* defer fm.mutex.Unlock(), and the return to the caller
TriggerUnlock(t) ==
    /\ ~fatal
    /\ th[t].pc = "tr_unlock"
    /\ mutex' = Unlocked
    /\ Set(t, Idle)
    /\ UNCHANGED <<current, transitions, heap, fatal>>

(***************************************************************************)
(* func (fm *StateMachine) AddTransitions(transitions ...*Transition) error*)
(***************************************************************************)
\* addTransition without the check for an existing key
addTransition_Overwrites(m, hp, transition) ==
    [err |-> NoErr,
     transitions |-> MapPut(m, eKey(hp[transition].From, hp[transition].Event),
                            transition)]

\* addTransition(transition): the error it returns and the map it leaves
addTransition(m, hp, transition) ==
    LET from == hp[transition].From
        event == hp[transition].Event
    IN IF MapHas(m, eKey(from, event))
       THEN [err |-> ErrExisted(from, event), transitions |-> m]
       ELSE [err |-> NoErr,
             transitions |-> MapPut(m, eKey(from, event), transition)]

AddTransitionsCall(t) ==
    /\ ~fatal
    /\ th[t].pc = "idle"
    /\ Set(t, [Idle EXCEPT !.pc = "add_lock", !.op = "AddTransitions"])
    /\ UNCHANGED <<current, transitions, mutex, heap, fatal>>

\* fm.mutex.Lock()
AddTransitionsLock(t, batch) ==
    /\ ~fatal
    /\ th[t].pc = "add_lock"
    /\ mutex = Unlocked
    /\ mutex' = t
    /\ Set(t, [th[t] EXCEPT !.pc = "add_range",
                            !.batch = batch,
                            !.i = 1,
                            !.preCurrent = current,
                            !.preTransitions = transitions])
    /\ UNCHANGED <<current, transitions, heap, fatal>>

\* AddTransitionsRange going on with the batch after a duplicate
AddTransitionsRange_ContinuesAfterError(t) ==
    /\ ~fatal
    /\ th[t].pc = "add_range"
    /\ IF th[t].i > Len(th[t].batch)
       THEN /\ Set(t, [th[t] EXCEPT !.pc = "add_unlock"])
            /\ UNCHANGED transitions
       ELSE LET r == addTransition(transitions, heap, th[t].batch[th[t].i]) IN
            /\ transitions' = r.transitions
            /\ IF r.err # NoErr
               THEN Set(t, [th[t] EXCEPT !.i = @ + 1, !.err = r.err])
               ELSE Set(t, [th[t] EXCEPT !.i = @ + 1])
    /\ UNCHANGED <<current, mutex, heap, fatal>>

\* AddTransitionsRange moving the machine to the From of what it registers
AddTransitionsRange_SetsCurrent(t) ==
    /\ ~fatal
    /\ th[t].pc = "add_range"
    /\ IF th[t].i > Len(th[t].batch)
       THEN /\ Set(t, [th[t] EXCEPT !.pc = "add_unlock", !.err = NoErr])
            /\ UNCHANGED <<transitions, current>>
       ELSE LET r == addTransition(transitions, heap, th[t].batch[th[t].i]) IN
            /\ transitions' = r.transitions
            /\ IF r.err # NoErr
               THEN /\ Set(t, [th[t] EXCEPT !.pc = "add_unlock", !.err = r.err])
                    /\ UNCHANGED current
               ELSE /\ Set(t, [th[t] EXCEPT !.i = @ + 1])
                    /\ current' = heap[th[t].batch[th[t].i]].From
    /\ UNCHANGED <<mutex, heap, fatal>>

\* for _, transition := range transitions {
\*     if err := fm.addTransition(transition); err != nil { return err }
\* }
\* return nil
AddTransitionsRange(t) ==
    /\ ~fatal
    /\ th[t].pc = "add_range"
    /\ th[t].i <= Len(th[t].batch) => th[t].batch[th[t].i] \in DOMAIN heap
    /\ IF th[t].i > Len(th[t].batch)
       THEN /\ Set(t, [th[t] EXCEPT !.pc = "add_unlock", !.err = NoErr])
            /\ UNCHANGED transitions
       ELSE LET r == addTransition(transitions, heap, th[t].batch[th[t].i]) IN
            /\ transitions' = r.transitions
            /\ IF r.err # NoErr
               THEN Set(t, [th[t] EXCEPT !.pc = "add_unlock", !.err = r.err])
               ELSE Set(t, [th[t] EXCEPT !.i = @ + 1])
    /\ UNCHANGED <<current, mutex, heap, fatal>>

\* defer fm.mutex.Unlock(), and the return to the caller
AddTransitionsUnlock(t) ==
    /\ ~fatal
    /\ th[t].pc = "add_unlock"
    /\ mutex' = Unlocked
    /\ Set(t, Idle)
    /\ UNCHANGED <<current, transitions, heap, fatal>>

(***************************************************************************)
(* func (fm *StateMachine) CurrentState() State                            *)
(***************************************************************************)
\* another goroutine is between Lock and Unlock
OtherInCall(t) == \E u \in Threads \ {t} : InCall(u)

\* What a read of fm.current that takes no lock can yield: the field, or,
\* while a Trigger of another goroutine is at its write of the field, the
\* value being written or a mix of the two.
ReadCurrent(t) ==
    {current} \cup
    UNION {{heap[th[u].trans].To, Torn} :
             u \in {v \in Threads \ {t} : th[v].pc = "tr_update"}}

\* return fm.current
CurrentState(t) ==
    /\ ~fatal
    /\ th[t].pc = "idle"
    /\ \E state \in ReadCurrent(t) :
         Set(t, [Idle EXCEPT !.pc = "cs_ret", !.op = "CurrentState",
                             !.state = state, !.raced = OtherInCall(t)])
    /\ UNCHANGED <<current, transitions, mutex, heap, fatal>>

CurrentStateReturn(t) ==
    /\ ~fatal
    /\ th[t].pc = "cs_ret"
    /\ Set(t, Idle)
    /\ UNCHANGED <<current, transitions, mutex, heap, fatal>>

(***************************************************************************)
(* func (fm *StateMachine) View() (graphViz, flowChart, diagram string)    *)
(***************************************************************************)
\* The byte order of the labels (Go's < on strings): the rank of a state
\* among the states and of an event among the events.  The labels of
\* example/simple.go are written as the names of its constants, ranked by
\* the UTF-8 bytes of the strings the constants hold.
Ord ==
    [A |-> 1, B |-> 2, C |-> 3, X |-> 1, Y |-> 2,
     StateShipped |-> 1, StateCanceled |-> 2, StateComplete |-> 3,
     StatePaid |-> 4, StatePending |-> 5, StateRefunding |-> 6,
     StateReturning |-> 7,
     EventShip |-> 1, EventCancel |-> 2, EventRefuseRefund |-> 3,
     EventRefuseReturn |-> 4, EventPaySuccess |-> 5, EventApplyRefund |-> 6,
     EventApplyReturn |-> 7, EventConfirmReceipt |-> 8,
     EventRefundSuccess |-> 9, EventReturnSuccess |-> 10]

\* a comparison that orders the strings from the last to the first
StringLess_Descending(a, b) == Ord[a] > Ord[b]

StringLess(a, b) == Ord[a] < Ord[b]

\* a less function that compares the From of the keys alone
KeyLess_FromOnly(a, b) == StringLess(a[1], b[1])

\* the less function of sort.Slice(sortedTransitionKeys, ...)
KeyLess(a, b) ==
    IF a[1] = b[1] THEN StringLess(a[2], b[2]) ELSE StringLess(a[1], b[1])

\* the orders in which a range over a map (or set) can yield its keys
RangeOrders(S) ==
    {f \in [1..Cardinality(S) -> S] : \A i, j \in DOMAIN f : f[i] = f[j] => i = j}

\* fmt.Sprintf("id%d", i)
SprintfId(i) == <<"id0", "id1", "id2", "id3", "id4", "id5", "id6">>[i + 1]

\* m[k] of a map[string]string: the zero value when k is absent
MapGet(m, k) == IF k \in DOMAIN m THEN m[k] ELSE ""

\* getSortedTransitionKeys(transitions), the range yielding the keys as order
getSortedTransitionKeys(order) == SortSeq(order, KeyLess)

\* the keys of statesToIDMap after the first loop of getSortedStates
StatesOf(m, hp) ==
    {k[1] : k \in DOMAIN m} \cup {hp[m[k]].To : k \in DOMAIN m}

\* getSortedStates(transitions): sortedStates, the range over statesToIDMap
\* yielding the states as order
getSortedStates(order) == SortSeq(order, StringLess)

\* getSortedStates(transitions): statesToIDMap
getStatesToIDMap(sortedStates) ==
    [s \in {sortedStates[i] : i \in DOMAIN sortedStates} |->
        SprintfId((CHOOSE i \in DOMAIN sortedStates : sortedStates[i] = s) - 1)]

\* the lines of bufFlowChart
FlowChartText(keys, states, ids, m, hp, cur) ==
    <<<<"graph LR">>>>
    \o [i \in DOMAIN states |-> <<"node", ids[states[i]], states[i]>>]
    \o <<<<>>>>
    \o [i \in DOMAIN keys |->
          <<"edge", MapGet(ids, keys[i][1]), keys[i][2],
            MapGet(ids, hp[m[keys[i]]].To)>>]
    \o <<<<>>>>
    \o <<<<"style", MapGet(ids, cur), "#00AA00">>>>

\* bufDiagram with the start pseudo-edge drawn to the first source state
DiagramText_StartsAtFirstState(keys, m, hp, cur) ==
    <<<<"stateDiagram">>,
      <<"[*] -->", IF keys = <<>> THEN cur ELSE keys[1][1]>>>>
    \o [i \in DOMAIN keys |->
          <<"-->", keys[i][1], hp[m[keys[i]]].To, keys[i][2]>>]

\* the lines of bufDiagram
DiagramText(keys, m, hp, cur) ==
    <<<<"stateDiagram">>, <<"[*] -->", cur>>>>
    \o [i \in DOMAIN keys |->
          <<"-->", keys[i][1], hp[m[keys[i]]].To, keys[i][2]>>]

\* the lines of bufGraphViz
GraphVizText(keys, states, m, hp, cur) ==
    <<<<"digraph fsm {">>>>
    \o [i \in DOMAIN keys |->
          <<"->", keys[i][1], hp[m[keys[i]]].To, keys[i][2]>>]
    \o <<<<>>>>
    \o [i \in DOMAIN states |->
          IF states[i] = cur THEN <<"node", states[i], "red">>
                             ELSE <<"node", states[i]>>]
    \o <<<<"}">>>>

\* a goroutine is inside View
InView(t) ==
    th[t].pc \in {"view_states", "view_flow", "view_diagram", "view_graphviz"}

\* another goroutine is about to store into fm.transitions
MapWriter(t) ==
    \E u \in Threads \ {t} :
        /\ th[u].pc = "add_range"
        /\ th[u].i <= Len(th[u].batch)
        /\ addTransition(transitions, heap, th[u].batch[th[u].i]).err = NoErr

\* sortedTransitionKeys := getSortedTransitionKeys(fm.transitions), the
\* range over the map yielding the keys in one of the given orders
ViewKeysIn(t, orders) ==
    /\ ~fatal
    /\ th[t].pc = "idle"
    /\ \E order \in orders :
         Set(t, [Idle EXCEPT !.pc = "view_states", !.op = "View",
                             !.sortedTransitionKeys = getSortedTransitionKeys(order)])
    /\ UNCHANGED <<current, transitions, mutex, heap, fatal>>

\* the same, the range yielding the keys in any order
ViewKeys(t) == ViewKeysIn(t, RangeOrders(DOMAIN transitions))

\* sortedStates, statesToIDMap := getSortedStates(fm.transitions), the
\* range over statesToIDMap yielding the states in one of the given orders
ViewStatesIn(t, orders) ==
    /\ ~fatal
    /\ th[t].pc = "view_states"
    /\ \E order \in orders :
         Set(t, [th[t] EXCEPT !.pc = "view_flow",
                              !.sortedStates = getSortedStates(order),
                              !.statesToIDMap = getStatesToIDMap(getSortedStates(order))])
    /\ UNCHANGED <<current, transitions, mutex, heap, fatal>>

\* the same, the range yielding the states in any order
ViewStates(t) == ViewStatesIn(t, RangeOrders(StatesOf(transitions, heap)))

\* var bufFlowChart strings.Builder { ... }
ViewFlowChart(t) ==
    /\ ~fatal
    /\ th[t].pc = "view_flow"
    /\ \E cur \in ReadCurrent(t) :
         Set(t, [th[t] EXCEPT !.pc = "view_diagram",
                              !.flowChart = FlowChartText(th[t].sortedTransitionKeys,
                                  th[t].sortedStates, th[t].statesToIDMap,
                                  transitions, heap, cur)])
    /\ UNCHANGED <<current, transitions, mutex, heap, fatal>>

\* var bufDiagram strings.Builder { ... }
ViewDiagram(t) ==
    /\ ~fatal
    /\ th[t].pc = "view_diagram"
    /\ \E cur \in ReadCurrent(t) :
         Set(t, [th[t] EXCEPT !.pc = "view_graphviz",
                              !.diagram = DiagramText(th[t].sortedTransitionKeys,
                                  transitions, heap, cur)])
    /\ UNCHANGED <<current, transitions, mutex, heap, fatal>>

\* var bufGraphViz strings.Builder { ... }
ViewGraphViz(t) ==
    /\ ~fatal
    /\ th[t].pc = "view_graphviz"
    /\ \E cur \in ReadCurrent(t) :
         Set(t, [th[t] EXCEPT !.pc = "view_ret",
                              !.graphViz = GraphVizText(th[t].sortedTransitionKeys,
                                  th[t].sortedStates, transitions, heap, cur)])
    /\ UNCHANGED <<current, transitions, mutex, heap, fatal>>

\* return bufGraphViz.String(), bufFlowChart.String(), bufDiagram.String()
ViewReturn(t) ==
    /\ ~fatal
    /\ th[t].pc = "view_ret"
    /\ Set(t, Idle)
    /\ UNCHANGED <<current, transitions, mutex, heap, fatal>>

\* A read of fm.transitions that overlaps a store into it: the runtime's
\* check throws "fatal error: concurrent map read and map write".
ViewFatal(t) ==
    /\ ~fatal
    /\ th[t].pc = "idle" \/ InView(t)
    /\ MapWriter(t)
    /\ fatal' = TRUE
    /\ Set(t, [th[t] EXCEPT !.pc = "view_fatal", !.op = "View"])
    /\ UNCHANGED <<current, transitions, mutex, heap>>

(***************************************************************************)
(* Specification.                                                          *)
(***************************************************************************)
\* Trigger, AddTransitions and CurrentState called by every goroutine
Next ==
    \E t \in Threads :
        \/ TriggerCall(t)
        \/ \E event \in Events : TriggerLock(t, event)
        \/ TriggerLookup(t)
        \/ TriggerHandle(t)
        \/ TriggerUpdate(t)
        \/ TriggerUnlock(t)
        \/ AddTransitionsCall(t)
        \/ \E batch \in Batches : AddTransitionsLock(t, batch)
        \/ AddTransitionsRange(t)
        \/ AddTransitionsUnlock(t)
        \/ CurrentState(t)
        \/ CurrentStateReturn(t)

Spec == Init /\ [][Next]_vars

\* the same, with View called as well
NextView ==
    \/ Next
    \/ \E t \in Viewers :
        \/ ViewKeys(t)
        \/ ViewStates(t)
        \/ ViewFlowChart(t)
        \/ ViewDiagram(t)
        \/ ViewGraphViz(t)
        \/ ViewReturn(t)
        \/ ViewFatal(t)

SpecView == Init /\ [][NextView]_vars

(***************************************************************************)
(* Properties.                                                             *)
(***************************************************************************)
\* the key a *Transition is registered under
KeyOf(hp, p) == eKey(hp[p].From, hp[p].Event)

\* the goroutine is at the return of a Trigger call, its result decided
TriggerReturns(t) == th[t].pc = "tr_unlock"

\* the goroutine is at the return of an AddTransitions call
AddTransitionsReturns(t) == th[t].pc = "add_unlock"

\* the key Trigger looked up, and whether the table held it when the call
\* took the mutex
TriggerKey(t) == eKey(th[t].preCurrent, th[t].event)
Registered(t) == TriggerKey(t) \in DOMAIN th[t].preTransitions

\* every registered transition is stored under its own (From, Event), and
\* no two registered transitions have the same key
C1_OnePerKey ==
    \A k \in DOMAIN transitions :
        /\ KeyOf(heap, transitions[k]) = k
        /\ \A j \in DOMAIN transitions :
             KeyOf(heap, transitions[j]) = KeyOf(heap, transitions[k]) => j = k

\* a step of addTransition on a key the table holds ends the call with the
\* duplicate error and changes neither the stored transition nor the count
C1_DuplicateStep ==
    \A t \in Threads :
        LET b == th[t].batch
            i == th[t].i
        IN (/\ th[t].pc = "add_range"
            /\ th'[t] # th[t]
            /\ i <= Len(b)
            /\ KeyOf(heap, b[i]) \in DOMAIN transitions)
           => /\ th'[t].pc = "add_unlock"
              /\ th'[t].err = ErrExisted(heap[b[i]].From, heap[b[i]].Event)
              /\ transitions' = transitions
              /\ transitions'[KeyOf(heap, b[i])] = transitions[KeyOf(heap, b[i])]
              /\ Cardinality(DOMAIN transitions') = Cardinality(DOMAIN transitions)

\* C1: the table never holds two transitions with the same (from, event)
\* key, and a step of AddTransitions that meets a key already in the table
\* ends the call with the duplicate error for that key and leaves the table
\* (the transition stored under the key and the number of transitions) as
\* it was.
C1_DuplicateRejected == []C1_OnePerKey /\ [][C1_DuplicateStep]_vars

\* an AddTransitions call has met a key that was registered with another
\* transition and returns the duplicate error
C1_Witness ==
    \E t \in Threads :
        /\ AddTransitionsReturns(t)
        /\ th[t].err[1] = "existed"
        /\ transitions[KeyOf(heap, th[t].batch[th[t].i])] # th[t].batch[th[t].i]

\* C2: a Trigger that finds (current, event) registered calls the handler
\* exactly once, with (current, event, the transition's To); current stays
\* the state the call found until the handler has returned nil, and is the
\* transition's To when the call returns nil; in every other outcome
\* current is the state the call found, in every step of the call.
C2_TriggerAllOrNothing ==
    \A t \in Threads :
        LET to == heap[th[t].preTransitions[TriggerKey(t)]].To IN
        /\ th[t].pc \in {"tr_lookup", "tr_handle", "tr_update"}
             => current = th[t].preCurrent
        /\ th[t].pc \in {"tr_handle", "tr_update"}
             => th[t].hargs = <<<<th[t].preCurrent, th[t].event, to>>>>
        /\ th[t].pc = "tr_update" => th[t].herr = NoErr
        /\ TriggerReturns(t) =>
             /\ Registered(t) =>
                  th[t].hargs = <<<<th[t].preCurrent, th[t].event, to>>>>
             /\ IF th[t].err = NoErr
                THEN /\ Registered(t)
                     /\ th[t].herr = NoErr
                     /\ current = to
                ELSE current = th[t].preCurrent

\* a Trigger returns nil after its handler ran and moved the machine
C2_Witness ==
    \E t \in Threads :
        /\ TriggerReturns(t)
        /\ th[t].err = NoErr
        /\ Len(th[t].hargs) = 1
        /\ current # th[t].preCurrent

\* C3: a Trigger that finds no transition for (current, event) returns the
\* undefined error for that pair, calls no handler and leaves current as it
\* found it.
C3_UndefinedTransition ==
    \A t \in Threads :
        (TriggerReturns(t) /\ ~Registered(t))
        => /\ th[t].err = ErrUndefined(th[t].preCurrent, th[t].event)
           /\ th[t].hargs = <<>>
           /\ current = th[t].preCurrent

\* in state B, Trigger(Y) is undefined although (A, Y) is registered
C3_Witness ==
    \E t \in Threads :
        /\ TriggerReturns(t)
        /\ th[t].err = ErrUndefined("B", "Y")
        /\ eKey("A", "Y") \in DOMAIN transitions
        /\ eKey("B", "Y") \notin DOMAIN transitions

\* C4: when the handler returns an error, Trigger returns that same error,
\* current is the state the call found, and the table still maps
\* (current, event) to the same transition, so the event can be triggered
\* again from that state.
C4_HandlerError ==
    \A t \in Threads :
        (TriggerReturns(t) /\ th[t].herr # NoErr)
        => /\ th[t].herr = ErrHandler(th[t].trans)
           /\ th[t].err = th[t].herr
           /\ current = th[t].preCurrent
           /\ eKey(current, th[t].event) \in DOMAIN transitions
           /\ transitions[eKey(current, th[t].event)] = th[t].trans

\* a handler has failed and Trigger returns its error
C4_Witness ==
    \E t \in Threads :
        /\ TriggerReturns(t)
        /\ th[t].herr = ErrHandler("p2")
        /\ th[t].err = ErrHandler("p2")
        /\ current = "A"

\* C5 as claimed: Trigger succeeds if and only if (S, event) is registered.
C5_SucceedsIffRegistered ==
    \A t \in Threads :
        TriggerReturns(t) => (th[t].err = NoErr <=> Registered(t))

\* C5, amended: Trigger succeeds if and only if (S, event) is registered
\* and the handler of that transition returns nil; it returns the
\* undefined error if and only if (S, event) is not registered.
C5_SucceedsIffRegisteredAndHandled ==
    \A t \in Threads :
        TriggerReturns(t) =>
            /\ th[t].err = NoErr <=>
                 /\ Registered(t)
                 /\ Len(th[t].hargs) = 1
                 /\ th[t].herr = NoErr
            /\ th[t].err[1] = "undefined" <=> ~Registered(t)

\* in state B, reached from A by a successful trigger, a Trigger succeeds
C5_Witness ==
    \E t \in Threads :
        /\ TriggerReturns(t)
        /\ th[t].err = NoErr
        /\ th[t].preCurrent = "B"
        /\ eKey("A", "X") \in DOMAIN th[t].preTransitions
        /\ current = "C"

\* C6: current starts as the state given to NewStateMachine, and every step
\* that changes it is the update of a Trigger whose handler returned nil,
\* setting it to the To of the transition registered for (current, event);
\* no other step of Trigger, AddTransitions, CurrentState or View changes
\* it.
C6_CurrentOnlyByAppliedTransition ==
    [][current' # current =>
         \E t \in Threads :
            /\ th[t].pc = "tr_update"
            /\ th[t].herr = NoErr
            /\ th[t].hargs = <<<<current, th[t].event, current'>>>>
            /\ eKey(current, th[t].event) \in DOMAIN transitions
            /\ heap[transitions[eKey(current, th[t].event)]].To = current'
            /\ th'[t].pc = "tr_unlock"
            /\ th'[t].err = NoErr]_vars

\* two transitions have been applied (A to B, then B to C) while a View is
\* in progress
C6_Witness ==
    \E t \in Threads, v \in Viewers :
        /\ TriggerReturns(t)
        /\ th[t].err = NoErr
        /\ th[t].preCurrent = "B"
        /\ current = "C"
        /\ InView(v)
        /\ th[v].flowChart # <<>>

\* the index of the first transition of batch b whose key is in m or is the
\* key of an earlier transition of b; 0 when there is none
FirstDuplicate(m, hp, b) ==
    LET dup == {k \in DOMAIN b :
                  \/ KeyOf(hp, b[k]) \in DOMAIN m
                  \/ \E j \in 1..(k - 1) : KeyOf(hp, b[j]) = KeyOf(hp, b[k])}
    IN IF dup = {} THEN 0 ELSE CHOOSE k \in dup : \A j \in dup : k <= j

\* m with b[1] .. b[n], whose keys are new and distinct, registered
WithRegistered(m, hp, b, n) ==
    [key \in (DOMAIN m) \cup {KeyOf(hp, b[j]) : j \in 1..n} |->
        IF key \in DOMAIN m THEN m[key]
        ELSE b[CHOOSE j \in 1..n : KeyOf(hp, b[j]) = key]]

\* C7: an AddTransitions call whose batch has a first transition tk with a
\* key already present returns the duplicate error for tk's key, having
\* registered t1 .. t(k-1) and none of t(k+1) .. tn; a batch without such a
\* transition is registered whole and the call returns nil.
C7_FirstErrorStops ==
    \A t \in Threads :
        AddTransitionsReturns(t) =>
            LET b == th[t].batch
                pre == th[t].preTransitions
                k == FirstDuplicate(pre, heap, b)
            IN IF k > 0
               THEN /\ th[t].err = ErrExisted(heap[b[k]].From, heap[b[k]].Event)
                    /\ transitions = WithRegistered(pre, heap, b, k - 1)
                    /\ \A j \in 1..(k - 1) : transitions[KeyOf(heap, b[j])] = b[j]
                    /\ \A j \in (k + 1)..Len(b) :
                         KeyOf(heap, b[j]) \in DOMAIN transitions
                           => \/ KeyOf(heap, b[j]) \in DOMAIN pre
                              \/ \E h \in 1..(k - 1) :
                                   KeyOf(heap, b[h]) = KeyOf(heap, b[j])
               ELSE /\ th[t].err = NoErr
                    /\ transitions = WithRegistered(pre, heap, b, Len(b))

\* a batch stops at its second transition: the first stays registered
C7_Witness ==
    \E t \in Threads :
        /\ AddTransitionsReturns(t)
        /\ th[t].err[1] = "existed"
        /\ Len(th[t].batch) = 2
        /\ th[t].i = 2
        /\ KeyOf(heap, th[t].batch[1]) \notin DOMAIN th[t].preTransitions
        /\ transitions[KeyOf(heap, th[t].batch[1])] = th[t].batch[1]

\* the state a Trigger of event leaves a machine in state s with map m,
\* run alone, its handler returning herr
SerialTrigger(s, m, hp, event, herr) ==
    IF eKey(s, event) \in DOMAIN m /\ herr = NoErr
    THEN hp[m[eKey(s, event)]].To
    ELSE s

\* C8: at most one Trigger or AddTransitions call is between Lock and
\* Unlock, so at most one handler runs; the map a Trigger looks up is the
\* map of the instant it took the mutex (no batch is in progress); and
\* every call leaves the table as the call run alone on the table it found
\* would: the calls take effect one at a time, in the order of the mutex.
C8_Serialized ==
    /\ Cardinality({t \in Threads : InCall(t)}) <= 1
    /\ Cardinality({t \in Threads : th[t].pc = "tr_handle"}) <= 1
    /\ \A t \in Threads : InCall(t) <=> mutex = t
    /\ \A t \in Threads :
         /\ th[t].pc \in {"tr_lookup", "tr_handle", "tr_update", "tr_unlock"}
              => /\ transitions = th[t].preTransitions
                 /\ \A u \in Threads : th[u].pc # "add_range"
         /\ th[t].pc \in {"tr_lookup", "tr_handle", "tr_update",
                          "add_range", "add_unlock"}
              => current = th[t].preCurrent
         /\ TriggerReturns(t)
              => current = SerialTrigger(th[t].preCurrent, th[t].preTransitions,
                                         heap, th[t].event, th[t].herr)

\* a handler runs while the other goroutine waits for the mutex
C8_Witness ==
    \E t, u \in Threads :
        /\ th[t].pc = "tr_handle"
        /\ th[u].pc \in {"tr_lock", "add_lock"}

\* C9: CurrentState never reads fm.current while another goroutine is
\* between Lock and Unlock of Trigger or AddTransitions.
C9_CurrentStateUnderLock ==
    \A t \in Threads : th[t].pc = "cs_ret" => ~th[t].raced

\* m restricted to the keys K
Restrict(m, K) == [k \in K |-> m[k]]

\* View run alone on the table (m, cur)
ViewOf(m, hp, cur) ==
    LET keys == getSortedTransitionKeys(CHOOSE o \in RangeOrders(DOMAIN m) : TRUE)
        states == getSortedStates(CHOOSE o \in RangeOrders(StatesOf(m, hp)) : TRUE)
        ids == getStatesToIDMap(states)
    IN [graphViz |-> GraphVizText(keys, states, m, hp, cur),
        flowChart |-> FlowChartText(keys, states, ids, m, hp, cur),
        diagram |-> DiagramText(keys, m, hp, cur)]

\* C10: the three texts one View call returns are the texts of one table:
\* a map the table held (the map only grows, so a restriction of the
\* present one) with one current state.
C10_ViewOneSnapshot ==
    \A t \in Viewers :
        th[t].pc = "view_ret" =>
            \E K \in SUBSET DOMAIN transitions, cur \in States \cup {Torn} :
                LET v == ViewOf(Restrict(transitions, K), heap, cur) IN
                /\ th[t].graphViz = v.graphViz
                /\ th[t].flowChart = v.flowChart
                /\ th[t].diagram = v.diagram

(***************************************************************************)
(* Handlers that call back into the table.                                 *)
(***************************************************************************)
\* Transition records whose handlers call a method of the same
\* *StateMachine: the handler of p1 calls fm.Trigger, the handler of p2
\* calls fm.AddTransitions.
ReenterTransitions ==
    [p1 |-> [From |-> "A", Event |-> "X", To |-> "B", Handle |-> "Trigger"],
     p2 |-> [From |-> "A", Event |-> "Y", To |-> "C", Handle |-> "AddTransitions"],
     p3 |-> [From |-> "B", Event |-> "X", To |-> "C", Handle |-> "either"],
     p4 |-> [From |-> "A", Event |-> "X", To |-> "C", Handle |-> "ok"]]

InitReenter ==
    /\ \E initial \in States : NewStateMachine(initial)
    /\ heap = ReenterTransitions
    /\ fatal = FALSE
    /\ th = [t \in Threads |-> Idle]

\* a Lock that the goroutine holding the mutex may take again
LockReturns_Reentrant(t) == mutex = Unlocked \/ mutex = t

\* sync.Mutex.Lock returns once the mutex is unlocked, whoever holds it
LockReturns(t) == mutex = Unlocked

\* trans.Handle(fm.current, event, trans.To) with a handler whose body calls
\* fm.Trigger or fm.AddTransitions: the goroutine, still inside the outer
\* Trigger, arrives at the fm.mutex.Lock() of the inner call
HandleReenters(t) ==
    /\ ~fatal
    /\ th[t].pc = "tr_handle"
    /\ heap[th[t].trans].Handle \in {"Trigger", "AddTransitions"}
    /\ Set(t, [th[t] EXCEPT !.pc = "re_lock"])
    /\ UNCHANGED <<current, transitions, mutex, heap, fatal>>

\* fm.mutex.Lock() of the inner call: it takes the mutex when Lock returns
\* and goes on waiting otherwise
ReenterLock(t) ==
    /\ ~fatal
    /\ th[t].pc = "re_lock"
    /\ IF LockReturns(t)
       THEN /\ mutex' = t
            /\ Set(t, [th[t] EXCEPT !.pc = "re_body"])
       ELSE UNCHANGED <<mutex, th>>
    /\ UNCHANGED <<current, transitions, heap, fatal>>

NextReenter ==
    \/ Next
    \/ \E t \in Threads :
        \/ HandleReenters(t)
        \/ ReenterLock(t)

SpecReenter == InitReenter /\ [][NextReenter]_vars

\* a goroutine waits in the Lock of a call made by its own handler
Reentered(t) == th[t].pc = "re_lock"

\* while a handler waits in its inner call, its goroutine holds the mutex
\* and fm.current is what the outer Trigger found
C11_HeldByItself ==
    \A t \in Threads :
        Reentered(t) => mutex = t /\ current = th[t].preCurrent

\* a step taken while a handler waits in its inner call: the handler goes on
\* waiting, fm.current and the mutex stay, and no goroutine waiting in the
\* Lock of Trigger or AddTransitions gets past it
C11_NoProgress ==
    \A t \in Threads :
        Reentered(t) =>
            /\ Reentered(t)'
            /\ current' = current
            /\ mutex' = mutex
            /\ \A u \in Threads \ {t} :
                 th[u].pc \in {"tr_lock", "add_lock"} => th'[u].pc = th[u].pc

\* C11: a handler that calls Trigger or AddTransitions on its own table
\* never returns from that call: the outer Trigger never returns, the
\* current state is never updated, the mutex stays held, and every later
\* Trigger or AddTransitions call on the table stays in its Lock.
C11_ReentrantHandlerBlocksForever ==
    []C11_HeldByItself /\ [][C11_NoProgress]_vars

\* a handler waits in its inner call and the other goroutine, which called
\* Trigger afterwards, waits in its Lock
C11_Witness ==
    /\ Reentered("t1")
    /\ heap[th["t1"].trans].Handle = "Trigger"
    /\ th["t2"].pc = "tr_lock"

(***************************************************************************)
(* Nil inputs: a Transition without a handler, a nil *Transition.          *)
(***************************************************************************)
\* the nil *Transition
NilTransition == "nil"

\* p5 is &Transition{From: "B", Event: "Y", To: "A"}: its Handle is the nil
\* func value
NilTransitions ==
    [p \in Pointers \cup {"p5"} |->
        IF p = "p5"
        THEN [From |-> "B", Event |-> "Y", To |-> "A", Handle |-> "nil"]
        ELSE NewTransitions[p]]

\* the argument lists holding p5 or nil
NilBatches == UNION {[1..n -> {"p1", "p5", NilTransition}] : n \in 0..MaxBatch}

\* panic: runtime error: invalid memory address or nil pointer dereference
Panic == <<"panic", "nil pointer dereference", "-">>

InitNil ==
    /\ \E initial \in States : NewStateMachine(initial)
    /\ heap = NilTransitions
    /\ fatal = FALSE
    /\ th = [t \in Threads |-> Idle]

\* trans.Handle(fm.current, event, trans.To) with Handle == nil: the call
\* of the nil func value panics, no handler runs, and Trigger unwinds to its
\* deferred Unlock
TriggerHandleNil(t) ==
    /\ ~fatal
    /\ th[t].pc = "tr_handle"
    /\ heap[th[t].trans].Handle = "nil"
    /\ Set(t, [th[t] EXCEPT !.pc = "tr_unlock",
                            !.hargs = SubSeq(@, 1, Len(@) - 1),
                            !.err = Panic])
    /\ UNCHANGED <<current, transitions, mutex, heap, fatal>>

\* addTransition(nil): from = transition.From dereferences the nil pointer
\* and panics; AddTransitions unwinds to its deferred Unlock
AddTransitionsRangeNil(t) ==
    /\ ~fatal
    /\ th[t].pc = "add_range"
    /\ th[t].i <= Len(th[t].batch)
    /\ th[t].batch[th[t].i] = NilTransition
    /\ Set(t, [th[t] EXCEPT !.pc = "add_unlock", !.err = Panic])
    /\ UNCHANGED <<current, transitions, mutex, heap, fatal>>

\* The deferred Unlock of a panicking call whose panic no caller recovers:
\* the mutex is released and the runtime ends the process.  (A caller that
\* recovers goes on as after TriggerUnlock / AddTransitionsUnlock.)
PanicExit(t) ==
    /\ ~fatal
    /\ th[t].pc \in {"tr_unlock", "add_unlock"}
    /\ th[t].err = Panic
    /\ mutex' = Unlocked
    /\ fatal' = TRUE
    /\ Set(t, [th[t] EXCEPT !.pc = "panicked"])
    /\ UNCHANGED <<current, transitions, heap>>

NextNil ==
    \/ Next
    \/ \E t \in Threads :
        \/ \E batch \in NilBatches : AddTransitionsLock(t, batch)
        \/ TriggerHandleNil(t)
        \/ AddTransitionsRangeNil(t)
        \/ PanicExit(t)

SpecNil == InitNil /\ [][NextNil]_vars

\* C12: every failure of AddTransitions and of Trigger is an error value
\* returned to the caller, also for a transition registered with a nil
\* Handle that is triggered and for a nil *Transition in a batch: a call
\* ends with nil or with one of the errors of the API, never with a panic,
\* and the process is never ended.
C12_FailuresAreReturnedErrors ==
    /\ ~fatal
    /\ \A t \in Threads :
         /\ TriggerReturns(t) => th[t].err[1] \in {"nil", "undefined", "handler"}
         /\ AddTransitionsReturns(t) => th[t].err[1] \in {"nil", "existed"}

(***************************************************************************)
(* The caller keeps the pointers it registered.                            *)
(***************************************************************************)
\* the pointers whose record the caller assigns to after registering them
Aliased == {"p1"}

\* the fields the caller assigns and the values it stores
CallerStores ==
    {<<"To", s>> : s \in States} \cup {<<"Handle", h>> : h \in {"ok", "fail"}}

\* transition.To = value (or .Handle), by the caller of AddTransitions, on
\* a record whose pointer addTransition has stored in fm.transitions
CallerWrites(p, store) ==
    /\ ~fatal
    /\ \E k \in DOMAIN transitions : transitions[k] = p
    /\ heap' = [heap EXCEPT ![p][store[1]] = store[2]]
    /\ UNCHANGED <<current, transitions, mutex, fatal, th>>

NextAlias ==
    \/ Next
    \/ \E p \in Aliased : \E store \in CallerStores : CallerWrites(p, store)

SpecAlias == Init /\ [][NextAlias]_vars

\* C13: once a transition is registered the caller cannot change it: after
\* the caller assigns to the record it passed to AddTransitions, a Trigger
\* still calls the handler the record had when it was registered, with the
\* destination it had then, and moves to that destination, and View still
\* renders the registered destination.  (The caller assigns only to
\* registered records, so the record at registration is NewTransitions'.)
C13_RegisteredIsImmutable ==
    /\ \A t \in Threads :
         TriggerReturns(t) /\ th[t].trans # "-" =>
            /\ th[t].hargs[Len(th[t].hargs)][3] = NewTransitions[th[t].trans].To
            /\ th[t].herr \in HandleReturns(th[t].trans,
                                            NewTransitions[th[t].trans].Handle)
            /\ th[t].err = NoErr => current = NewTransitions[th[t].trans].To
    /\ ViewOf(transitions, heap, current)
         = ViewOf(transitions, NewTransitions, current)

(***************************************************************************)
(* Frame conditions.                                                       *)
(***************************************************************************)
\* the operation the goroutine t takes a step of
StepOf(t) == IF th[t].pc = "idle" THEN th'[t].op ELSE th[t].op

\* a step of Trigger leaves fm.transitions, a step of AddTransitions leaves
\* fm.current, a step of CurrentState or View leaves both
C14_FrameStep ==
    \A t \in Threads :
        th'[t] # th[t] =>
            /\ StepOf(t) = "Trigger" => transitions' = transitions
            /\ StepOf(t) = "AddTransitions" => current' = current
            /\ StepOf(t) \in {"CurrentState", "View"} =>
                 current' = current /\ transitions' = transitions

\* at its return a Trigger finds the map, and an AddTransitions the current
\* state, that it found when it started
C14_FrameCall ==
    \A t \in Threads :
        /\ TriggerReturns(t) => transitions = th[t].preTransitions
        /\ AddTransitionsReturns(t) => current = th[t].preCurrent

\* C14: Trigger changes nothing but fm.current (the map is the same before
\* and after every Trigger, successful or failed), AddTransitions never
\* changes fm.current, CurrentState and View change neither.
C14_FrameEffects == []C14_FrameCall /\ [][C14_FrameStep]_vars

\* a Trigger has moved the machine and left a map of two transitions as it
\* was, while a View is at its return
C14_Witness ==
    /\ TriggerReturns("t1")
    /\ th["t1"].err = NoErr
    /\ current # th["t1"].preCurrent
    /\ Cardinality(DOMAIN transitions) = 2
    /\ transitions = th["t1"].preTransitions
    /\ th["t2"].pc = "view_ret"

(***************************************************************************)
(* One goroutine: every call runs alone.                                   *)
(***************************************************************************)
\* Trigger, AddTransitions, CurrentState and View called by one goroutine,
\* one call after the other
NextSeq ==
    \E t \in Viewers :
        \/ TriggerCall(t)
        \/ \E event \in Events : TriggerLock(t, event)
        \/ TriggerLookup(t)
        \/ TriggerHandle(t)
        \/ TriggerUpdate(t)
        \/ TriggerUnlock(t)
        \/ AddTransitionsCall(t)
        \/ \E batch \in Batches : AddTransitionsLock(t, batch)
        \/ AddTransitionsRange(t)
        \/ AddTransitionsUnlock(t)
        \/ CurrentState(t)
        \/ CurrentStateReturn(t)
        \/ ViewKeys(t)
        \/ ViewStates(t)
        \/ ViewFlowChart(t)
        \/ ViewDiagram(t)
        \/ ViewGraphViz(t)
        \/ ViewReturn(t)

SpecSeq == Init /\ [][NextSeq]_vars

\* the goroutine is at the return of a View call
ViewReturns(t) == th[t].pc = "view_ret"

\* the three texts View is about to return
Texts(t) ==
    [graphViz |-> th[t].graphViz,
     flowChart |-> th[t].flowChart,
     diagram |-> th[t].diagram]

\* the lines of a text whose first word is tag
Lines(text, tag) == SelectSeq(text, LAMBDA l : Len(l) > 0 /\ l[1] = tag)

\* the label a flow chart declares for the node id
LabelOf(flowChart, id) ==
    LET nodes == Lines(flowChart, "node")
    IN nodes[CHOOSE i \in DOMAIN nodes : nodes[i][2] = id][3]

\* the (from, event) of the edges of each text, in the order of the text
DiagramKeys(text) ==
    [i \in DOMAIN Lines(text, "-->") |->
        eKey(Lines(text, "-->")[i][2], Lines(text, "-->")[i][4])]
GraphVizKeys(text) ==
    [i \in DOMAIN Lines(text, "->") |->
        eKey(Lines(text, "->")[i][2], Lines(text, "->")[i][4])]
FlowChartKeys(text) ==
    [i \in DOMAIN Lines(text, "edge") |->
        eKey(LabelOf(text, Lines(text, "edge")[i][2]), Lines(text, "edge")[i][3])]

\* the labels of the node statements of the graph and of the flow chart, in
\* the order of the text
GraphVizNodes(text) ==
    [i \in DOMAIN Lines(text, "node") |-> Lines(text, "node")[i][2]]
FlowChartNodes(text) ==
    [i \in DOMAIN Lines(text, "node") |-> Lines(text, "node")[i][3]]

\* s lists exactly the elements of S, each once, in ascending order
Ascending(s, S, Less(_, _)) ==
    /\ {s[i] : i \in DOMAIN s} = S
    /\ \A i \in DOMAIN s : i < Len(s) => Less(s[i], s[i + 1])

\* C15: the texts View returns depend on the table alone, not on the order
\* in which the map yields its entries or in which they were registered
\* (they are the texts of every other View of a table with these
\* transitions and this current state); each text lists every registered
\* transition once, in ascending order of (from, event), and the flow chart
\* and the graph list every state once, in ascending order of its label.
C15_RenderDeterministic ==
    \A t \in Viewers :
        ViewReturns(t) =>
            /\ Texts(t) = ViewOf(transitions, heap, current)
            /\ Ascending(DiagramKeys(th[t].diagram), DOMAIN transitions, KeyLess)
            /\ Ascending(GraphVizKeys(th[t].graphViz), DOMAIN transitions, KeyLess)
            /\ Ascending(FlowChartKeys(th[t].flowChart), DOMAIN transitions, KeyLess)
            /\ Ascending(GraphVizNodes(th[t].graphViz),
                         StatesOf(transitions, heap), StringLess)
            /\ Ascending(FlowChartNodes(th[t].flowChart),
                         StatesOf(transitions, heap), StringLess)

\* a View of a table holding (A, X), (A, Y) and (B, X), in state B
C15_Witness ==
    /\ ViewReturns("t2")
    /\ DOMAIN transitions = {eKey("A", "X"), eKey("A", "Y"), eKey("B", "X")}
    /\ current = "B"
    /\ Len(th["t2"].diagram) = 5

(***************************************************************************)
(* A machine built in state A with the cycle A -> B -> C -> A.             *)
(***************************************************************************)
\* the state handed to NewStateMachine
CycleStart == "A"

\* p1, p2, p3 are the cycle; p4 is a second way out of A
CycleTransitions ==
    [p1 |-> [From |-> "A", Event |-> "X", To |-> "B", Handle |-> "ok"],
     p2 |-> [From |-> "B", Event |-> "Y", To |-> "C", Handle |-> "ok"],
     p3 |-> [From |-> "C", Event |-> "X", To |-> "A", Handle |-> "ok"],
     p4 |-> [From |-> "A", Event |-> "Y", To |-> "C", Handle |-> "either"]]

InitCycle ==
    /\ NewStateMachine(CycleStart)
    /\ heap = CycleTransitions
    /\ fatal = FALSE
    /\ th = [t \in Threads |-> Idle]

SpecCycle == InitCycle /\ [][NextSeq]_vars

\* the keys of the cycle
CycleKeys == {eKey("A", "X"), eKey("B", "Y"), eKey("C", "X")}

\* C16: the state diagram View returns is the stateDiagram header, then
\* the pseudo-edge [*] --> S with S the current state at the time of the
\* View, then one line "from --> to: event" per registered transition, in
\* ascending order of (from, event) and nothing else.
C16_DiagramStartsAtCurrent ==
    \A t \in Viewers :
        ViewReturns(t) =>
            LET diagram == th[t].diagram
                keys == DiagramKeys(diagram)
            IN /\ Len(diagram) = 2 + Cardinality(DOMAIN transitions)
               /\ diagram[1] = <<"stateDiagram">>
               /\ diagram[2] = <<"[*] -->", current>>
               /\ Ascending(keys, DOMAIN transitions, KeyLess)
               /\ \A i \in DOMAIN keys :
                    diagram[i + 2] = <<"-->", keys[i][1],
                                       heap[transitions[keys[i]]].To, keys[i][2]>>

\* a View of the cycle after triggers have moved the machine from A to C:
\* the diagram has the header, [*] --> C and three lines
C16_Witness ==
    /\ ViewReturns("t2")
    /\ DOMAIN transitions = CycleKeys
    /\ current = "C"
    /\ current # CycleStart
    /\ Len(th["t2"].diagram) = 5
    /\ th["t2"].diagram[2] = <<"[*] -->", "C">>

(***************************************************************************)
(* example/simple.go: the order machine of the README.                     *)
(***************************************************************************)
\* eTos, each entry behind the pointer main hands to AddTransitions; every
\* handler logs and returns nil
ExampleTransitions ==
    [e1 |-> [From |-> "StatePending", Event |-> "EventCancel",
             To |-> "StateCanceled", Handle |-> "ok"],
     e2 |-> [From |-> "StatePending", Event |-> "EventPaySuccess",
             To |-> "StatePaid", Handle |-> "ok"],
     e3 |-> [From |-> "StatePaid", Event |-> "EventCancel",
             To |-> "StateRefunding", Handle |-> "ok"],
     e4 |-> [From |-> "StatePaid", Event |-> "EventApplyRefund",
             To |-> "StateRefunding", Handle |-> "ok"],
     e5 |-> [From |-> "StateRefunding", Event |-> "EventRefundSuccess",
             To |-> "StateCanceled", Handle |-> "ok"],
     e6 |-> [From |-> "StateRefunding", Event |-> "EventRefuseRefund",
             To |-> "StatePaid", Handle |-> "ok"],
     e7 |-> [From |-> "StatePaid", Event |-> "EventShip",
             To |-> "StateShipped", Handle |-> "ok"],
     e8 |-> [From |-> "StateShipped", Event |-> "EventApplyReturn",
             To |-> "StateReturning", Handle |-> "ok"],
     e9 |-> [From |-> "StateReturning", Event |-> "EventRefuseReturn",
             To |-> "StateShipped", Handle |-> "ok"],
     e10 |-> [From |-> "StateReturning", Event |-> "EventReturnSuccess",
              To |-> "StateRefunding", Handle |-> "ok"],
     e11 |-> [From |-> "StateShipped", Event |-> "EventConfirmReceipt",
              To |-> "StateComplete", Handle |-> "ok"],
     e12 |-> [From |-> "StateShipped", Event |-> "EventCancel",
              To |-> "StateReturning", Handle |-> "ok"],
     e13 |-> [From |-> "StateReturning", Event |-> "EventConfirmReceipt",
              To |-> "StateComplete", Handle |-> "ok"]]

\* the calls main makes on fm, in the order of the program text
MainProgram ==
    [i \in 1..13 |->
        <<"AddTransitions",
          <<(<<"e1", "e2", "e3", "e4", "e5", "e6", "e7", "e8", "e9", "e10",
               "e11", "e12", "e13">>)[i]>>>>]
    \o <<<<"CurrentState">>, <<"Trigger", "EventPaySuccess">>,
         <<"CurrentState">>, <<"Trigger", "EventShip">>,
         <<"CurrentState">>, <<"Trigger", "EventCancel">>,
         <<"CurrentState">>, <<"Trigger", "EventApplyReturn">>,
         <<"View">>>>

\* main before its first call; its calls run in the frame of goroutine t1
Main == [pc |-> 1, err |-> NoErr, diagram |-> <<>>]

\* fm := fsm.NewStateMachine(StatePending)
InitExample ==
    /\ NewStateMachine("StatePending")
    /\ heap = ExampleTransitions
    /\ fatal = FALSE
    /\ th = [t \in Threads \cup {"main"} |-> IF t = "main" THEN Main ELSE Idle]

\* main has returned
MainDone == th["main"].pc > Len(MainProgram)

\* the call main is at
Stmt == MainProgram[th["main"].pc]

\* s as a sequence, in an order of its own
RECURSIVE SetToSeq(_)
SetToSeq(S) ==
    IF S = {} THEN <<>>
    ELSE LET x == CHOOSE x \in S : TRUE IN <<x>> \o SetToSeq(S \ {x})

\* The orders in which the range loops of the example's View yield the keys
\* of a map: the map keeps its entries in an order of its own and the range
\* starts at any of them.
Rotations(S) ==
    LET s == SetToSeq(S)
        n == Len(s)
    IN IF n = 0 THEN {<<>>}
       ELSE {[i \in 1..n |-> s[((i + r - 1) % n) + 1]] : r \in 0..(n - 1)}

\* The return of the call to main: the deferred Unlock of Trigger and
\* AddTransitions, err and diagram assigned, and in the loop over eTos
\*     if err != nil { log.Println(err); return }
MainReturn ==
    /\ ~fatal
    /\ th["t1"].pc \in {"tr_unlock", "add_unlock", "cs_ret", "view_ret"}
    /\ mutex' = IF th["t1"].pc \in {"tr_unlock", "add_unlock"}
                THEN Unlocked ELSE mutex
    /\ th' = [th EXCEPT
         !["t1"] = Idle,
         !["main"] =
            [pc |-> IF Stmt[1] = "AddTransitions" /\ th["t1"].err # NoErr
                    THEN Len(MainProgram) + 1
                    ELSE th["main"].pc + 1,
             err |-> IF Stmt[1] \in {"AddTransitions", "Trigger"}
                     THEN th["t1"].err ELSE th["main"].err,
             diagram |-> IF Stmt[1] = "View"
                         THEN th["t1"].diagram ELSE th["main"].diagram]]
    /\ UNCHANGED <<current, transitions, heap, fatal>>

NextExample ==
    /\ ~MainDone
    /\ \/ /\ Stmt[1] = "AddTransitions"
          /\ \/ AddTransitionsCall("t1")
             \/ AddTransitionsLock("t1", Stmt[2])
             \/ AddTransitionsRange("t1")
       \/ /\ Stmt[1] = "Trigger"
          /\ \/ TriggerCall("t1")
             \/ TriggerLock("t1", Stmt[2])
             \/ TriggerLookup("t1")
             \/ TriggerHandle("t1")
             \/ TriggerUpdate("t1")
       \/ /\ Stmt[1] = "CurrentState"
          /\ CurrentState("t1")
       \/ /\ Stmt[1] = "View"
          /\ \/ ViewKeysIn("t1", Rotations(DOMAIN transitions))
             \/ ViewStatesIn("t1", Rotations(StatesOf(transitions, heap)))
             \/ ViewFlowChart("t1")
             \/ ViewDiagram("t1")
             \/ ViewGraphViz("t1")
       \/ MainReturn

SpecExample == InitExample /\ [][NextExample]_vars

\* the state diagram the README shows after the example
ReadmeDiagram ==
    <<<<"stateDiagram">>,
      <<"[*] -->", "StatePaid">>,
      <<"-->", "StateShipped", "StateReturning", "EventCancel">>,
      <<"-->", "StateShipped", "StateReturning", "EventApplyReturn">>,
      <<"-->", "StateShipped", "StateComplete", "EventConfirmReceipt">>,
      <<"-->", "StatePaid", "StateShipped", "EventShip">>,
      <<"-->", "StatePaid", "StateRefunding", "EventCancel">>,
      <<"-->", "StatePaid", "StateRefunding", "EventApplyRefund">>,
      <<"-->", "StatePending", "StateCanceled", "EventCancel">>,
      <<"-->", "StatePending", "StatePaid", "EventPaySuccess">>,
      <<"-->", "StateRefunding", "StatePaid", "EventRefuseRefund">>,
      <<"-->", "StateRefunding", "StateCanceled", "EventRefundSuccess">>,
      <<"-->", "StateReturning", "StateShipped", "EventRefuseReturn">>,
      <<"-->", "StateReturning", "StateComplete", "EventConfirmReceipt">>,
      <<"-->", "StateReturning", "StateRefunding", "EventReturnSuccess">>>>

C18_EmptyTableEmptyBody ==
    \A t \in Viewers :
        ViewReturns(t) /\ DOMAIN transitions = {} =>
            /\ th[t].graphViz = <<<<"digraph fsm {">>, <<>>, <<"}">>>>
            /\ th[t].flowChart = <<<<"graph LR">>, <<>>, <<>>>>
            /\ th[t].diagram = <<<<"stateDiagram">>, <<"[*] -->", current>>>>

\* the ids the flow chart declares
DeclaredIds(flowChart) ==
    {Lines(flowChart, "node")[i][2] : i \in DOMAIN Lines(flowChart, "node")}

\* the node statements the graph marks as current
MarkedNodes(graphViz) ==
    {i \in DOMAIN Lines(graphViz, "node") : Len(Lines(graphViz, "node")[i]) = 3}

\* C19: in every View output the marking of the current state refers to a
\* declared node: the id of the flow chart's style directive is the id of
\* one of the flow chart's node declarations, and the graph marks exactly
\* one of its node statements.
C19_MarkingRefersToNode ==
    \A t \in Viewers :
        ViewReturns(t) =>
            /\ \A i \in DOMAIN Lines(th[t].flowChart, "style") :
                 Lines(th[t].flowChart, "style")[i][2]
                    \in DeclaredIds(th[t].flowChart)
            /\ Len(Lines(th[t].flowChart, "style")) = 1
            /\ Cardinality(MarkedNodes(th[t].graphViz)) = 1

(***************************************************************************)
(* Fair scheduling.                                                        *)
(***************************************************************************)
\* fm.mutex.Lock() of the call the goroutine has made
LockStep(t) ==
    \/ \E event \in Events : TriggerLock(t, event)
    \/ \E batch \in Batches : AddTransitionsLock(t, batch)

\* the next statement of the call between its Lock and its return
BodyStep(t) ==
    \/ TriggerLookup(t)
    \/ TriggerHandle(t)
    \/ TriggerUpdate(t)
    \/ TriggerUnlock(t)
    \/ AddTransitionsRange(t)
    \/ AddTransitionsUnlock(t)

\* A goroutine that can take the next step of the body of its call takes it
\* (the scheduler runs every runnable goroutine), and a goroutine waiting in
\* Lock gets the mutex if it is unlocked again and again (sync.Mutex hands
\* the mutex to a waiter that has waited for long: starvation mode).
\* Nothing obliges a goroutine to make a call.
Fairness ==
    \A t \in Threads : WF_vars(BodyStep(t)) /\ SF_vars(LockStep(t))

SpecFair == Init /\ [][Next]_vars /\ Fairness

\* the goroutine is inside a Trigger or AddTransitions call, waiting in
\* Lock or past it
Calling(t) == th[t].op \in {"Trigger", "AddTransitions"}

\* the mutex is unlocked whenever no Trigger or AddTransitions call is in
\* progress
C20_FreeWhenQuiet ==
    (\A t \in Threads : ~Calling(t)) => mutex = Unlocked

\* C20: with handlers that return and do not call back into the table,
\* under fair scheduling every Trigger and every AddTransitions call of
\* every goroutine returns, whether with nil or with an error, and the
\* mutex is unlocked whenever no call is in progress.
C20_CallsReturn ==
    /\ []C20_FreeWhenQuiet
    /\ \A t \in Threads : Calling(t) ~> ~Calling(t)

\* a Trigger is about to return an error while the other goroutine waits
\* in the Lock of AddTransitions
C20_Witness ==
    /\ TriggerReturns("t1")
    /\ th["t1"].err # NoErr
    /\ mutex = "t1"
    /\ th["t2"].pc = "add_lock"

====
